---------------------------- MODULE Spec2Model ----------------------------
(***************************************************************************)
(* Model of duduckdb (src/lib/duduckdb/duduckdb.py): the DUDB object with  *)
(* its in-memory table "index", the report_du call (depth column, the      *)
(* per-directory and per-user queries, the sort-option checks, sort_list   *)
(* and the printing), and the pure function sizeof_fmt.                    *)
(*                                                                         *)
(* Strings whose characters matter (paths, LIKE patterns, user names) are  *)
(* sequences of one-character strings, so that rstrip, count, replace,     *)
(* LIKE and the string order are computed character by character.          *)
(***************************************************************************)
EXTENDS Integers, Sequences, FiniteSets, TLC

VARIABLES
    labels,     \* column names of the parquet file self.fn (get_headers)
    index,      \* rows of the in-memory table "index" (self.conn)
    pc,         \* "idle": no call in progress, "done": report_du has ended
    args,       \* keyword arguments of the report_du call that just ended
    outcome,    \* "none", "returned", or the name of the exception raised
    collected,  \* the local list "results" as built by the query loop
    results,    \* the list report_du returned (<<>> when it raised)
    stdout,     \* the lines the call printed
    nexec,      \* number of self.conn.execute calls the call made
    before,     \* the table as it was when the call started
    file,       \* rows of the parquet file self.fn
    fnum,       \* sizeof_fmt: the argument num, as base-fac digits
    fsi,        \* sizeof_fmt: the argument si_units
    fout        \* sizeof_fmt: the returned string, in parts

vars == <<labels, index, pc, args, outcome, collected, results, stdout,
          nexec, before, file, fnum, fsi, fout>>

(***************************************************************************)
(* Python None and SQL NULL.  Sizes, counts, uids, timestamps and depths   *)
(* of an index are never -1, so -1 is free to stand for "no value".        *)
(***************************************************************************)
None == 0 - 1

Min(a, b) == IF a < b THEN a ELSE b

\* largest depth a call asks for
MaxDepth == 1

\* largest number of base-fac digits of a sizeof_fmt argument
MaxDigits == 9

---------------------------------------------------------------------------
(* Character strings *)

\* code points of the characters used, for the str order of Python
Ord(c) ==
    CASE c = "%" -> 37 [] c = "." -> 46 [] c = "/" -> 47
      [] c = "1" -> 49 [] c = "2" -> 50
      [] c = "A" -> 65 [] c = "L" -> 76 [] c = "_" -> 95
      [] c = "a" -> 97 [] c = "b" -> 98 [] c = "d" -> 100
      [] c = "u" -> 117 [] c = "x" -> 120 [] c = "y" -> 121
      [] c = "z" -> 122

\* str.__lt__: lexicographic by code point, a proper prefix is smaller
RECURSIVE StrLess(_, _)
StrLess(s, t) ==
    IF t = <<>> THEN FALSE
    ELSE IF s = <<>> THEN TRUE
    ELSE IF Head(s) = Head(t) THEN StrLess(Tail(s), Tail(t))
    ELSE Ord(Head(s)) < Ord(Head(t))

\* str.rstrip(chars) for a single character
RECURSIVE RStrip(_, _)
RStrip(s, c) ==
    IF s # <<>> /\ s[Len(s)] = c THEN RStrip(SubSeq(s, 1, Len(s) - 1), c)
    ELSE s

\* str.count(c) for a single character
RECURSIVE Count(_, _)
Count(s, c) ==
    IF s = <<>> THEN 0
    ELSE (IF Head(s) = c THEN 1 ELSE 0) + Count(Tail(s), c)

\* SQL replace(s, c, '')
SqlReplaceEmpty(s, c) == SelectSeq(s, LAMBDA x : x # c)

\* SQL "s LIKE p": % matches any run of characters, _ any one character
RECURSIVE Like(_, _)
Like(s, p) ==
    IF p = <<>> THEN s = <<>>
    ELSE IF Head(p) = "%"
         THEN Like(s, Tail(p)) \/ (s # <<>> /\ Like(Tail(s), p))
    ELSE /\ s # <<>>
         /\ (Head(p) = "_" \/ Head(p) = Head(s))
         /\ Like(Tail(s), Tail(p))

\* concatenation of a sequence of sequences
RECURSIVE Flatten(_)
Flatten(ss) == IF ss = <<>> THEN <<>> ELSE Head(ss) \o Flatten(Tail(ss))

\* the elements of a sequence, each once, in order of first occurrence
RECURSIVE Distinct(_)
Distinct(s) ==
    IF s = <<>> THEN <<>>
    ELSE LET d == Distinct(SubSeq(s, 1, Len(s) - 1))
             x == s[Len(s)]
         IN  IF \E i \in 1..Len(d) : d[i] = x THEN d ELSE Append(d, x)

\* list.index(x), counted from 1; 0 when x is not in the list
IndexOf(s, x) ==
    IF \E i \in 1..Len(s) : s[i] = x
    THEN CHOOSE i \in 1..Len(s) : s[i] = x /\ \A j \in 1..(i - 1) : s[j] # x
    ELSE 0

---------------------------------------------------------------------------
(* sizeof_fmt *)

(***************************************************************************)
(* num is a record [digits, shift]: digits are the base-fac digits of the  *)
(* argument, most significant first and without leading zero (<<>> is 0),  *)
(* shift is the number of times "num /= fac" ran, so that the value is     *)
(* digits / fac^shift.  This keeps values of fac^7 and above exact.        *)
(***************************************************************************)
Fac(si_units) == IF si_units THEN 10 ^ 3 ELSE 2 ^ 10

Units(si_units) ==
    IF si_units THEN <<"", "k", "M", "G", "T", "P", "E">>
    ELSE <<"", "Ki", "Mi", "Gi", "Ti", "Pi", "Ei">>

\* the integer part of num, as digits
Whole(num) ==
    SubSeq(num.digits, 1, Len(num.digits) - num.shift)

\* the d-th digit of num after the point (d >= 1)
FracDigit(num, d) ==
    LET i == Len(num.digits) - num.shift + d
    IN  IF i >= 1 /\ i <= Len(num.digits) THEN num.digits[i] ELSE 0

\* abs(num) < fac: the integer part has at most one digit
AbsBelowFac(num) == Len(num.digits) - num.shift <= 1

\* num /= fac
DivFac(num) == [num EXCEPT !.shift = @ + 1]

\* digits + 1 in base fac
RECURSIVE Incr(_, _)
Incr(digits, fac) ==
    IF digits = <<>> THEN <<1>>
    ELSE LET n == Len(digits)
         IN  IF digits[n] + 1 < fac
             THEN [digits EXCEPT ![n] = @ + 1]
             ELSE Append(Incr(SubSeq(digits, 1, n - 1), fac), 0)

(***************************************************************************)
(* f"{num:.1f}": num rounded to one decimal, ties to even, a carry going   *)
(* into the integer part.  The value is taken exactly; the rounding error  *)
(* of the float divisions by 1000.0 is not modelled.                       *)
(***************************************************************************)
FormatF1(num, fac) ==
    LET t    == (FracDigit(num, 1) * fac + FracDigit(num, 2)) * 10
        q    == t \div (fac * fac)
        r    == t % (fac * fac)
        more == \E d \in 3..(num.shift) : FracDigit(num, d) # 0
        up   == \/ 2 * r > fac * fac
                \/ 2 * r = fac * fac /\ (more \/ q % 2 = 1)
        q1   == IF up THEN q + 1 ELSE q
    IN  IF q1 = 10
        THEN [whole |-> Incr(Whole(num), fac), tenth |-> 0]
        ELSE [whole |-> Whole(num), tenth |-> q1]

\* the loop of sizeof_fmt from the i-th unit on
RECURSIVE FmtLoop(_, _, _, _)
FmtLoop(num, i, si_units, suffix) ==
    LET units == Units(si_units)
        fac   == Fac(si_units)
    IN  IF i > Len(units)
        THEN [number |-> FormatF1(num, fac), unit |-> units[Len(units)],
              suffix |-> suffix]
        ELSE IF AbsBelowFac(num)
        THEN [number |-> FormatF1(num, fac), unit |-> units[i],
              suffix |-> suffix]
        ELSE FmtLoop(DivFac(num), i + 1, si_units, suffix)

sizeof_fmt(digits, si_units, suffix) ==
    FmtLoop([digits |-> digits, shift |-> 0], 1, si_units, suffix)

\* the base-fac digits of a non-negative int
RECURSIVE ToDigits(_, _)
ToDigits(n, fac) ==
    IF n = 0 THEN <<>> ELSE Append(ToDigits(n \div fac, fac), n % fac)

---------------------------------------------------------------------------
(* The table "index" and the queries report_du runs on it *)

\* a depth update that only fills the rows that have no depth yet
UpdateDepthOnlyNull(idx, top_directory) ==
    LET top_directory_stripped == RStrip(top_directory, "/")
        top_directory_depth ==
            Count(top_directory_stripped, "/")
                - (IF top_directory_stripped = <<>> THEN 1 ELSE 0)
    IN  [i \in DOMAIN idx |->
            IF idx[i].depth # None THEN idx[i]
            ELSE IF top_directory_stripped = <<>>
                    /\ (idx[i].path = <<".">> \/ idx[i].path = <<>>)
            THEN [idx[i] EXCEPT !.depth = 0]
            ELSE [idx[i] EXCEPT !.depth =
                     Len(idx[i].path)
                       - Len(SqlReplaceEmpty(idx[i].path, "/"))
                       - top_directory_depth]]

\* update index set depth = len(path) - len(replace(path, '/', '')) - tdd,
\* followed by the special case of the root directory
UpdateDepth(idx, top_directory) ==
    LET top_directory_stripped == RStrip(top_directory, "/")
        top_directory_depth ==
            Count(top_directory_stripped, "/")
                - (IF top_directory_stripped = <<>> THEN 1 ELSE 0)
        updated == [i \in DOMAIN idx |->
                      [idx[i] EXCEPT !.depth =
                          Len(idx[i].path)
                            - Len(SqlReplaceEmpty(idx[i].path, "/"))
                            - top_directory_depth]]
    IN  IF top_directory_stripped = <<>>
        THEN [i \in DOMAIN idx |->
                IF updated[i].path = <<".">> \/ updated[i].path = <<>>
                THEN [updated[i] EXCEPT !.depth = 0]
                ELSE updated[i]]
        ELSE updated

\* number of statements the depth update executes
DepthStatements(top_directory) ==
    IF RStrip(top_directory, "/") = <<>> THEN 3 ELSE 2

\* select path from index where depth = d and is_dir = 1
\*   and path like '{top_directory}%'
SelectDirectories(idx, depth, top_directory) ==
    LET hit == SelectSeq(idx, LAMBDA r :
                   /\ r.depth = depth
                   /\ r.is_dir = 1
                   /\ Like(r.path, top_directory \o <<"%">>))
    IN  [i \in DOMAIN hit |-> hit[i].path]

\* the pattern report_du builds for a directory
Pattern(basedir) == IF basedir = <<".">> THEN <<"%">> ELSE basedir \o <<"%">>

\* the where clause query_metrics builds
MetricRows(idx, pattern, older_than, newer_than, uid, timestamp_type) ==
    SelectSeq(idx, LAMBDA r :
        /\ Like(r.path, pattern)
        /\ (older_than # None => r[timestamp_type] < older_than)
        /\ (newer_than # None => r[timestamp_type] > newer_than)
        /\ (uid # None => r.uid = uid))

\* SQL sum(size): NULL over no rows
RECURSIVE SqlSum(_)
SqlSum(rows) ==
    IF rows = <<>> THEN None
    ELSE LET rest == SqlSum(Tail(rows))
         IN  Head(rows).size + (IF rest = None THEN 0 ELSE rest)

\* SQL count(size)
SqlCount(rows) == Len(rows)

KnownMetrics == {"size", "inodes"}

query_metrics(idx, metrics, pattern, older_than, newer_than, uid, timestamp_type) ==
    LET rows == MetricRows(idx, pattern, older_than, newer_than, uid,
                           timestamp_type)
    IN  [m \in DOMAIN metrics |->
            \* any other metric raises, see UnknownMetricRaised
            IF metrics[m] = "size" THEN SqlSum(rows) ELSE SqlCount(rows)]

\* select distinct uid from index where path like '{pattern}'
SelectUids(idx, pattern) ==
    LET hit == SelectSeq(idx, LAMBDA r : Like(r.path, pattern))
    IN  Distinct([i \in DOMAIN hit |-> hit[i].uid])

\* pwd.getpwuid(uid).pw_name
Username(uid) == <<"u", IF uid = 1 THEN "1" ELSE "2">>

ALL == <<"A", "L", "L">>

\* the rows report_du appends for one directory
DirectoryRows(idx, basedir, depth, a) ==
    LET pattern == Pattern(basedir)
        total == query_metrics(idx, a.metrics, pattern, a.older_than,
                               a.newer_than, None, a.timestamp_type)
        uids == SelectUids(idx, pattern)
    IN  <<(<<basedir, ALL, depth>> \o total)>>
        \o (IF a.per_user
            THEN [u \in DOMAIN uids |->
                    <<basedir, Username(uids[u]), depth>>
                    \o query_metrics(idx, a.metrics, pattern, a.older_than,
                                     a.newer_than, uids[u],
                                     a.timestamp_type)]
            ELSE <<>>)

\* statements executed for one directory
DirectoryStatements(idx, basedir, a) ==
    Len(a.metrics)
      + (IF a.per_user
         THEN 1 + Len(SelectUids(idx, Pattern(basedir))) * Len(a.metrics)
         ELSE 0)

\* range(min_depth, max_depth + 1) as a list
DepthRange(a) ==
    [i \in 1..(IF a.max_depth >= a.min_depth
               THEN a.max_depth - a.min_depth + 1 ELSE 0) |->
        a.min_depth + i - 1]

\* the loop over the depths: the list "results" it builds
QueryLoop(idx, a) ==
    LET depths == DepthRange(a)
    IN  Flatten([k \in DOMAIN depths |->
            LET subdirectories ==
                    SelectDirectories(idx, depths[k], a.top_directory)
            IN  Flatten([j \in DOMAIN subdirectories |->
                    DirectoryRows(idx, subdirectories[j], depths[k], a)])])

RECURSIVE SeqSum(_)
SeqSum(s) == IF s = <<>> THEN 0 ELSE Head(s) + SeqSum(Tail(s))

QueryLoopStatements(idx, a) ==
    LET depths == DepthRange(a)
    IN  SeqSum([k \in DOMAIN depths |->
            LET subdirectories ==
                    SelectDirectories(idx, depths[k], a.top_directory)
            IN  1 + SeqSum([j \in DOMAIN subdirectories |->
                    DirectoryStatements(idx, subdirectories[j], a)])])

\* query_metrics raises NotImplementedError at the first unknown metric,
\* which the loop reaches with the first directory it finds
UnknownMetricRaised(idx, a) ==
    /\ \E m \in DOMAIN a.metrics : a.metrics[m] \notin KnownMetrics
    /\ \E k \in DOMAIN DepthRange(a) :
          SelectDirectories(idx, DepthRange(a)[k], a.top_directory) # <<>>

\* statements executed up to that raise
UnknownMetricStatements(idx, a) ==
    LET depths == DepthRange(a)
        first == CHOOSE k \in DOMAIN depths :
                    /\ SelectDirectories(idx, depths[k], a.top_directory)
                          # <<>>
                    /\ \A j \in 1..(k - 1) :
                          SelectDirectories(idx, depths[j],
                                            a.top_directory) = <<>>
        bad == CHOOSE m \in DOMAIN a.metrics :
                    /\ a.metrics[m] \notin KnownMetrics
                    /\ \A j \in 1..(m - 1) : a.metrics[j] \in KnownMetrics
    IN  first + bad - 1

---------------------------------------------------------------------------
(* sort_list *)

\* Sorter.__init__ fails its assertion: a sort key is not a column
SorterAssertFails(columns, sortby) ==
    \E i \in DOMAIN sortby : IndexOf(columns, sortby[i]) = 0

\* Sorter.keys: the column index and the comparator class of each sort key
SorterKeys(columns, sortby) ==
    [i \in DOMAIN sortby |->
        [col |-> IndexOf(columns, sortby[i]),
         cls |-> IF sortby[i] \in {"size", "inodes"}
                 THEN "reversor" ELSE "versor"]]

\* the first two columns (path, user) hold str, the others int or None
IsStrColumn(col) == col <= 2

\* Python x < y on the values of a column; see ObjRaises for None
ObjLess(col, x, y) == IF IsStrColumn(col) THEN StrLess(x, y) ELSE x < y

\* x < y raises TypeError: an operand is None
ObjRaises(col, x, y) == ~IsStrColumn(col) /\ (x = None \/ y = None)

\* list comparison: the first position where the two key lists differ by
\* comparator.__eq__, 0 when there is none
FirstDifference(r1, r2, keys) ==
    IF \E i \in DOMAIN keys : r1[keys[i].col] # r2[keys[i].col]
    THEN CHOOSE i \in DOMAIN keys :
            /\ r1[keys[i].col] # r2[keys[i].col]
            /\ \A j \in 1..(i - 1) : r1[keys[j].col] = r2[keys[j].col]
    ELSE 0

\* a comparison that sorts every column in ascending order
KeyLessAscending(r1, r2, keys) ==
    LET i == FirstDifference(r1, r2, keys)
    IN  /\ i # 0
        /\ ObjLess(keys[i].col, r1[keys[i].col], r2[keys[i].col])

\* sorter.sort(r1) < sorter.sort(r2), decided by the __lt__ of the
\* comparator class at the first difference
KeyLess(r1, r2, keys) ==
    LET i == FirstDifference(r1, r2, keys)
    IN  /\ i # 0
        /\ IF keys[i].cls = "reversor"
           THEN ObjLess(keys[i].col, r2[keys[i].col], r1[keys[i].col])
           ELSE ObjLess(keys[i].col, r1[keys[i].col], r2[keys[i].col])

\* that comparison raises TypeError
KeyRaises(r1, r2, keys) ==
    LET i == FirstDifference(r1, r2, keys)
    IN  i # 0 /\ ObjRaises(keys[i].col, r1[keys[i].col], r2[keys[i].col])

\* sorted(): stable; built by inserting each row behind the rows that are
\* not greater than it
InsertRow(sorted, x, keys) ==
    IF \E i \in DOMAIN sorted : KeyLess(x, sorted[i], keys)
    THEN LET p == CHOOSE i \in DOMAIN sorted :
                     /\ KeyLess(x, sorted[i], keys)
                     /\ \A j \in 1..(i - 1) : ~KeyLess(x, sorted[j], keys)
         IN  SubSeq(sorted, 1, p - 1) \o <<x>>
               \o SubSeq(sorted, p, Len(sorted))
    ELSE Append(sorted, x)

RECURSIVE Sorted(_, _)
Sorted(rows, keys) ==
    IF rows = <<>> THEN <<>>
    ELSE InsertRow(Sorted(SubSeq(rows, 1, Len(rows) - 1), keys),
                   rows[Len(rows)], keys)

(***************************************************************************)
(* sorted() raises when a comparison it makes raises.  Two rows that       *)
(* first differ in a column where one of them holds None cannot be put in  *)
(* order without that comparison (or one like it within the same group),   *)
(* so the sort raises exactly when such a pair exists.                     *)
(***************************************************************************)
SortRaises(rows, keys) ==
    \E i \in DOMAIN rows : \E j \in DOMAIN rows :
        KeyRaises(rows[i], rows[j], keys)

\* sort_list: [error, list]
sort_list(rows, columns, sortby) ==
    IF SorterAssertFails(columns, sortby)
    THEN [error |-> "AssertionError", list |-> <<>>]
    ELSE IF SortRaises(rows, SorterKeys(columns, sortby))
    THEN [error |-> "TypeError", list |-> <<>>]
    ELSE [error |-> "none",
          list |-> Sorted(rows, SorterKeys(columns, sortby))]

---------------------------------------------------------------------------
(* Printing *)

\* one cell of print_usage_single
UsageCell(size, human_readable, si_units, suffix) ==
    IF size = None \/ size = 0
    THEN [text |-> "-", value |-> 0]
    ELSE IF human_readable
    THEN [text |-> "sizeof_fmt",
          value |-> sizeof_fmt(ToDigits(size, Fac(si_units)), si_units,
                               suffix)]
    ELSE [text |-> "str", value |-> size]

print_usage_single(sizes, identifier, human_readable, si_units, suffixes, prefix) ==
    [prefix |-> prefix, ident |-> identifier,
     cells |-> [i \in 1..Min(Len(sizes), Len(suffixes)) |->
                  UsageCell(sizes[i], human_readable, si_units,
                            suffixes[i])]]

\* print(c * 80)
Rule(c) == [prefix |-> 0, ident |-> <<c>>, cells |-> <<>>]

\* the column headers: the metric names, then a line of "="
PrintHeader(metrics) ==
    << [prefix |-> 0, ident |-> <<"directory">>,
        cells |-> [i \in DOMAIN metrics |->
                     [text |-> "name", value |-> metrics[i]]]],
       Rule("=") >>

Suffixes(metrics) ==
    [i \in DOMAIN metrics |-> IF metrics[i] = "inodes" THEN "" ELSE "B"]

\* the loop that prints the sorted rows
PrintRows(rows, a) ==
    Flatten([i \in DOMAIN rows |->
        LET res == rows[i]
            username == res[2]
        IN  << print_usage_single(
                   SubSeq(res, 4, Len(res)),
                   IF username = ALL THEN res[1] ELSE username,
                   a.human_readable, a.si_units, Suffixes(a.metrics),
                   IF username = ALL THEN 0 ELSE 4) >>
            \o (IF a.per_user /\ username = ALL
                THEN <<Rule("-")>> ELSE <<>>)])

---------------------------------------------------------------------------
(* report_du *)

\* required columns that leave out uid
RequiredColumnsWithoutUid(a) ==
    {"path", "is_dir", "size"}
      \cup (IF a.older_than # None \/ a.newer_than # None
            THEN {a.timestamp_type} ELSE {})

\* the columns report_du requires
RequiredColumns(a) ==
    {"path", "is_dir", "size"}
      \cup (IF a.per_user THEN {"uid"} ELSE {})
      \cup (IF a.older_than # None \/ a.newer_than # None
            THEN {a.timestamp_type} ELSE {})

\* the assertions on the required columns fail
ColumnCheckFails(lbls, a) ==
    \/ (a.older_than # None \/ a.newer_than # None) /\ a.timestamp_type = ""
    \/ ~(RequiredColumns(a) \subseteq lbls)

\* sanity checks that leave out "min_depth has to be 0"
SanityCheckFailsAnyDepth(a) ==
    IF \E i \in DOMAIN a.sort_by : a.sort_by[i] = "user"
    THEN ~a.per_user \/ a.min_depth # a.max_depth
    ELSE a.per_user /\ ~(\E i \in DOMAIN a.sort_by : a.sort_by[i] = "depth")

\* the sanity checks before sorting fail
SanityCheckFails(a) ==
    IF \E i \in DOMAIN a.sort_by : a.sort_by[i] = "user"
    THEN ~a.per_user \/ a.min_depth # 0 \/ a.min_depth # a.max_depth
    ELSE a.per_user /\ ~(\E i \in DOMAIN a.sort_by : a.sort_by[i] = "depth")

\* the whole call on a table idx of a file with columns lbls:
\* how it ends, the table it leaves, what it printed and returned
report_du(idx, lbls, a) ==
    LET idx1      == UpdateDepth(idx, a.top_directory)
        header    == IF a.suppress_output THEN <<>>
                     ELSE PrintHeader(a.metrics)
        setup     == DepthStatements(a.top_directory)
        rows      == QueryLoop(idx1, a)
        executed  == setup + QueryLoopStatements(idx1, a)
        columns   == <<"path", "user", "depth">> \o a.metrics
        sorted    == sort_list(rows, columns, a.sort_by)
        Raise(exc, tbl, out, n, coll) ==
            [outcome |-> exc, index |-> tbl, stdout |-> out, nexec |-> n,
             collected |-> coll, results |-> <<>>]
    IN  IF ColumnCheckFails(lbls, a)
        THEN Raise("AssertionError", idx, <<>>, 0, <<>>)
        ELSE IF UnknownMetricRaised(idx1, a)
        THEN Raise("NotImplementedError", idx1, header,
                   setup + UnknownMetricStatements(idx1, a), <<>>)
        ELSE IF a.suppress_output
        THEN [outcome |-> "returned", index |-> idx1, stdout |-> <<>>,
              nexec |-> executed, collected |-> rows, results |-> rows]
        ELSE IF SanityCheckFails(a)
        THEN Raise("AssertionError", idx1, header, executed, rows)
        ELSE IF sorted.error # "none"
        THEN Raise(sorted.error, idx1, header, executed, rows)
        ELSE [outcome |-> "returned", index |-> idx1,
              stdout |-> header \o PrintRows(sorted.list, a),
              nexec |-> executed, collected |-> rows,
              results |-> sorted.list]

---------------------------------------------------------------------------
(* The index files and the arguments the model draws from *)

Row(path, is_dir, size, uid, atime) ==
    [path |-> path, is_dir |-> is_dir, size |-> size, uid |-> uid,
     atime |-> atime]

AllLabels == {"path", "is_dir", "size", "uid", "atime"}

\* two directories next to each other, two users, old and new entries
FileA ==
    << Row(<<".">>, 1, 4, 1, 1),
       Row(<<"a">>, 1, 4, 1, 1),
       Row(<<"a", "/", "x">>, 0, 10, 1, 3),
       Row(<<"a", "/", "y">>, 0, 5, 2, 1),
       Row(<<"b">>, 1, 4, 2, 3),
       Row(<<"b", "/", "z">>, 0, 5, 1, 3) >>

\* a directory whose name is a prefix of its neighbour's, and a
\* directory at the second level
FileB ==
    << Row(<<".">>, 1, 4, 1, 1),
       Row(<<"a">>, 1, 4, 1, 1),
       Row(<<"a", "/", "d">>, 1, 4, 1, 1),
       Row(<<"a", "/", "d", "/", "x">>, 0, 10, 1, 3),
       Row(<<"a", "b">>, 1, 4, 2, 1),
       Row(<<"a", "b", "/", "y">>, 0, 7, 2, 3) >>

Files ==
    { [rows |-> FileA, labels |-> AllLabels],
      [rows |-> FileB, labels |-> AllLabels],
      [rows |-> FileA, labels |-> AllLabels \ {"uid"}],
      [rows |-> FileA, labels |-> AllLabels \ {"atime"}],
      [rows |-> FileB, labels |-> AllLabels \ {"size"}] }

\* read_db: create table index as select * from the file
read_db(rows) ==
    [i \in DOMAIN rows |->
        [path |-> rows[i].path, is_dir |-> rows[i].is_dir,
         size |-> rows[i].size, uid |-> rows[i].uid,
         atime |-> rows[i].atime, depth |-> None]]

TopDirectories == { <<>>, <<"a">>, <<"a", "/">>, <<"b">> }

Filters ==
    { [older_than |-> None, newer_than |-> None],
      [older_than |-> 2, newer_than |-> None],
      [older_than |-> None, newer_than |-> 2] }

MetricLists == { <<"size">>, <<"size", "inodes">>, <<"blocks">> }

SortLists ==
    { <<"depth", "size">>, <<"user">>, <<"size">>, <<"depth", "path">>,
      <<"inodes", "path">> }

Arguments ==
    { [top_directory |-> t, per_user |-> pu, older_than |-> f.older_than,
       newer_than |-> f.newer_than, max_depth |-> mx, min_depth |-> mn,
       metrics |-> m, human_readable |-> hr, si_units |-> FALSE,
       timestamp_type |-> "atime", suppress_output |-> so, sort_by |-> sb] :
       t \in TopDirectories, pu \in BOOLEAN, f \in Filters,
       mx \in 0..MaxDepth, mn \in 0..MaxDepth, m \in MetricLists,
       hr \in BOOLEAN, so \in BOOLEAN, sb \in SortLists }

NoArguments ==
    [top_directory |-> <<>>, per_user |-> FALSE, older_than |-> None,
     newer_than |-> None, max_depth |-> 0, min_depth |-> 0,
     metrics |-> <<>>, human_readable |-> FALSE, si_units |-> FALSE,
     timestamp_type |-> "", suppress_output |-> FALSE, sort_by |-> <<>>]

NoFmt == [number |-> [whole |-> <<>>, tenth |-> 0], unit |-> "",
          suffix |-> ""]

---------------------------------------------------------------------------
(* The DUDB object: construction, report_du calls *)

Init ==
    /\ \E f \in Files :
          /\ file = f.rows
          /\ labels = f.labels
          /\ index = read_db(f.rows)
          /\ before = read_db(f.rows)
    /\ pc = "idle"
    /\ args = NoArguments
    /\ outcome = "none"
    /\ collected = <<>>
    /\ results = <<>>
    /\ stdout = <<>>
    /\ nexec = 0
    /\ fnum = <<>>
    /\ fsi = FALSE
    /\ fout = NoFmt

\* a call of report_du, from entry to return or raise
ReportDu ==
    /\ pc = "idle"
    /\ \E a \in Arguments :
          LET r == report_du(index, labels, a)
          IN  /\ args' = a
              /\ outcome' = r.outcome
              /\ index' = r.index
              /\ collected' = r.collected
              /\ results' = r.results
              /\ stdout' = r.stdout
              /\ nexec' = r.nexec
    /\ before' = index
    /\ pc' = "done"
    /\ UNCHANGED <<labels, file, fnum, fsi, fout>>

\* the caller goes on; the object keeps its connection and table
Continue ==
    /\ pc = "done"
    /\ pc' = "idle"
    /\ args' = NoArguments
    /\ outcome' = "none"
    /\ collected' = <<>>
    /\ results' = <<>>
    /\ stdout' = <<>>
    /\ nexec' = 0
    /\ before' = index
    /\ UNCHANGED <<labels, file, index, fnum, fsi, fout>>

Next == ReportDu \/ Continue

Spec == Init /\ [][Next]_vars

---------------------------------------------------------------------------
(* sizeof_fmt on its own: the arguments are drawn, then the call is made *)

\* numbers of up to MaxDigits base-fac digits: a leading digit, a second
\* digit that decides the decimal, zeros behind
FmtNumbers(si_units) ==
    LET fac == Fac(si_units)
    IN  {<<>>} \cup
        { [i \in 1..n |-> IF i = 1 THEN d1 ELSE IF i = 2 THEN d2 ELSE 0] :
            n \in 1..MaxDigits, d1 \in {1, fac - 1},
            d2 \in {0, fac \div 2, fac - 1} }

InitFmt ==
    /\ fsi \in BOOLEAN
    /\ fnum \in FmtNumbers(fsi)
    /\ fout = NoFmt
    /\ pc = "idle"
    /\ file = <<>>
    /\ labels = {}
    /\ index = <<>>
    /\ before = <<>>
    /\ args = NoArguments
    /\ outcome = "none"
    /\ collected = <<>>
    /\ results = <<>>
    /\ stdout = <<>>
    /\ nexec = 0

SizeofFmtCall ==
    /\ pc = "idle"
    /\ fout' = sizeof_fmt(fnum, fsi, "B")
    /\ pc' = "done"
    /\ UNCHANGED <<labels, index, args, outcome, collected, results, stdout,
                   nexec, before, file, fnum, fsi>>

NextFmt == SizeofFmtCall

SpecFmt == InitFmt /\ [][NextFmt]_vars

---------------------------------------------------------------------------
(* What the claims speak of *)

IsPrefix(p, s) == Len(p) <= Len(s) /\ SubSeq(s, 1, Len(p)) = p

\* the entry at path is the directory dir or lies beneath it
InSubtree(path, dir) ==
    \/ dir = <<".">>
    \/ dir = <<>>
    \/ path = dir
    \/ IsPrefix(dir \o <<"/">>, path)

\* the file's entries in the subtree of dir that pass the call's filter
\* and, when uid is given, belong to uid
SubtreeEntries(dir, a, uid) ==
    SelectSeq(file, LAMBDA r :
        /\ InSubtree(r.path, dir)
        /\ (a.older_than # None => r.atime < a.older_than)
        /\ (a.newer_than # None => r.atime > a.newer_than)
        /\ (uid # None => r.uid = uid))

\* the value of a metric over entries; a sum over nothing is missing
MetricOver(metric, entries) ==
    IF metric = "inodes" THEN Len(entries)
    ELSE IF entries = <<>> THEN None
    ELSE SeqSum([k \in DOMAIN entries |-> entries[k].size])

\* number of path levels of path below the top directory
LevelsBelow(path, top_directory) ==
    LET top == RStrip(top_directory, "/")
    IN  IF top = <<>>
        THEN (IF path = <<".">> \/ path = <<>> THEN 0
              ELSE Count(path, "/") + 1)
        ELSE Count(path, "/") - Count(top, "/")

\* positions of the 'ALL' rows of a list
AllRows(rows) == { i \in DOMAIN rows : rows[i][2] = ALL }

Returned == pc = "done" /\ outcome = "returned"

MetricsKnown(a) == \A m \in DOMAIN a.metrics : a.metrics[m] \in KnownMetrics

Unfiltered(a) == a.older_than = None /\ a.newer_than = None

\* C1: every 'ALL' row of an unfiltered report carries, per metric, the
\* aggregate over exactly the entries of its directory's subtree (size:
\* their sum, inodes: their number)
C1_AllRowAggregatesSubtree ==
    (Returned /\ Unfiltered(args)) =>
        \A i \in AllRows(results) : \A m \in DOMAIN args.metrics :
            results[i][3 + m] =
                MetricOver(args.metrics[m],
                           SubtreeEntries(results[i][1], args, None))

\* C2: the 'ALL' rows are, one each, the directories at or beneath the top
\* directory whose number of levels below it lies in min_depth..max_depth,
\* and each row carries that number
C2_OneRowPerDirectoryInRange ==
    Returned =>
        LET top == RStrip(args.top_directory, "/")
            Wanted(r) ==
                /\ r.is_dir = 1
                /\ InSubtree(r.path, top)
                /\ args.min_depth <= LevelsBelow(r.path, args.top_directory)
                /\ LevelsBelow(r.path, args.top_directory) <= args.max_depth
        IN  /\ \A k \in DOMAIN file : Wanted(file[k]) =>
                  Cardinality({ i \in AllRows(results) :
                      /\ results[i][1] = file[k].path
                      /\ results[i][3] =
                            LevelsBelow(file[k].path, args.top_directory) })
                    = 1
            /\ \A i \in AllRows(results) :
                  \E k \in DOMAIN file :
                      Wanted(file[k]) /\ file[k].path = results[i][1]
            /\ \A i \in AllRows(results) : \A j \in AllRows(results) :
                  results[i][1] = results[j][1] => i = j

\* C3: per user, every reported directory has exactly one user row for
\* each uid owning an entry of its subtree, carrying the aggregates over
\* that uid's entries, and the user rows add up to the 'ALL' row
C3_UserRowsPartitionDirectory ==
    (Returned /\ args.per_user) =>
        \A i \in AllRows(results) :
            LET dir == results[i][1]
                own == { k \in DOMAIN results :
                            results[k][1] = dir /\ results[k][2] # ALL }
                owners == { file[k].uid : k \in
                              { k \in DOMAIN file :
                                    InSubtree(file[k].path, dir) } }
                Val(v) == IF v = None THEN 0 ELSE v
                RECURSIVE Total(_, _)
                Total(ks, m) ==
                    IF ks = {} THEN 0
                    ELSE LET k == CHOOSE x \in ks : TRUE
                         IN  Val(results[k][3 + m])
                               + Total(ks \ {k}, m)
            IN  /\ \A u \in owners :
                      Cardinality({ k \in own :
                          results[k][2] = Username(u) }) = 1
                /\ \A k \in own :
                      \E u \in owners :
                          /\ results[k][2] = Username(u)
                          /\ \A m \in DOMAIN args.metrics :
                                results[k][3 + m] =
                                    MetricOver(args.metrics[m],
                                               SubtreeEntries(dir, args, u))
                /\ \A m \in DOMAIN args.metrics :
                      Total(own, m) = Val(results[i][3 + m])

\* the value of a row in the column named key
ColumnOf(row, key, a) ==
    row[IndexOf(<<"path", "user", "depth">> \o a.metrics, key)]

\* row r1 has to come before row r2: at the first sort key where they
\* differ r1 is the larger one for size and inodes, the smaller one else
Precedes(r1, r2, a) ==
    \E k \in DOMAIN a.sort_by :
        /\ \A j \in 1..(k - 1) :
              ColumnOf(r1, a.sort_by[j], a) = ColumnOf(r2, a.sort_by[j], a)
        /\ ColumnOf(r1, a.sort_by[k], a) # ColumnOf(r2, a.sort_by[k], a)
        /\ LET x == ColumnOf(r1, a.sort_by[k], a)
               y == ColumnOf(r2, a.sort_by[k], a)
           IN  CASE a.sort_by[k] \in {"size", "inodes"} -> x > y
                 [] a.sort_by[k] = "depth" -> x < y
                 [] OTHER -> StrLess(x, y)

\* position of a row in a list of distinct rows
PositionIn(rows, r) == CHOOSE i \in DOMAIN rows : rows[i] = r

\* C4: with output enabled the returned list is the list the query loop
\* built, reordered: the same rows, ordered by the sort keys in priority
\* order (size and inodes descending, the others ascending), rows equal on
\* all sort keys in their input order
C4_ReturnedListIsStableSort ==
    (Returned /\ ~args.suppress_output) =>
        /\ Len(results) = Len(collected)
        /\ \A i \in DOMAIN collected :
              Cardinality({ k \in DOMAIN results :
                                results[k] = collected[i] })
                = Cardinality({ k \in DOMAIN collected :
                                collected[k] = collected[i] })
        /\ \A i \in DOMAIN results : \A j \in DOMAIN results :
              i < j => ~Precedes(results[j], results[i], args)
        /\ \A i \in DOMAIN collected : \A j \in DOMAIN collected :
              (/\ i < j
               /\ ~Precedes(collected[i], collected[j], args)
               /\ ~Precedes(collected[j], collected[i], args))
              => PositionIn(results, collected[i])
                   < PositionIn(results, collected[j])

\* C4 witness: a sorted report whose order differs from the query order,
\* with a descending key, and with two rows that are equal on all keys
C4_Witness ==
    /\ Returned /\ ~args.suppress_output
    /\ results # collected
    /\ args.sort_by = <<"depth", "size">>
    /\ \E i \in DOMAIN results : \E j \in DOMAIN results :
          /\ i < j
          /\ results[i][3] = results[j][3]
          /\ results[i][4] > results[j][4]
    /\ \E i \in DOMAIN collected : \E j \in DOMAIN collected :
          /\ i < j
          /\ ~Precedes(collected[i], collected[j], args)
          /\ ~Precedes(collected[j], collected[i], args)

\* the sort options the claim C5 speaks of
UserInSortBy(a) == \E i \in DOMAIN a.sort_by : a.sort_by[i] = "user"

DepthInSortBy(a) == \E i \in DOMAIN a.sort_by : a.sort_by[i] = "depth"

RejectedSortOptions(a) ==
    \/ UserInSortBy(a)
         /\ ~(a.per_user /\ a.min_depth = 0 /\ a.min_depth = a.max_depth)
    \/ a.per_user /\ ~UserInSortBy(a) /\ ~DepthInSortBy(a)
    \/ \E i \in DOMAIN a.sort_by :
          /\ a.sort_by[i] \notin {"path", "user", "depth"}
          /\ \A m \in DOMAIN a.metrics : a.metrics[m] # a.sort_by[i]

\* C5 as written: every call with rejected sort options fails with an
\* AssertionError and returns no list
C5_EveryCallValidatesSortOptions ==
    (pc = "done" /\ RejectedSortOptions(args)) =>
        outcome = "AssertionError" /\ results = <<>>

\* C5 amended: with output enabled a call with rejected sort options
\* returns no list; it raises, and what it raises is an AssertionError
\* whenever the queries before the checks went through (known metrics).
\* With output suppressed the sort options are not checked: the call
\* returns the list the query loop built
C5_OutputCallValidatesSortOptions ==
    (pc = "done" /\ RejectedSortOptions(args)) =>
        IF args.suppress_output
        THEN (RequiredColumns(args) \subseteq labels /\ MetricsKnown(args))
                => (outcome = "returned" /\ results = collected)
        ELSE /\ outcome # "returned"
             /\ results = <<>>
             /\ MetricsKnown(args) => outcome = "AssertionError"

\* C5 witness: the columns were there, the queries ran, and the call
\* failed on its sort options
C5_Witness ==
    /\ pc = "done" /\ RejectedSortOptions(args) /\ ~args.suppress_output
    /\ outcome = "AssertionError"
    /\ collected # <<>>
    /\ args.per_user /\ UserInSortBy(args) /\ args.min_depth = 1

\* the columns the claim C6 requires
ClaimedColumns(a) ==
    {"path", "is_dir", "size"}
      \cup { c \in {"uid"} : a.per_user }
      \cup { c \in {a.timestamp_type} : ~Unfiltered(a) }

\* C6: a call that lacks a required column fails with an AssertionError
\* and has done nothing: table as before, nothing printed, no statement
\* executed
C6_MissingColumnFailsFirst ==
    (pc = "done" /\ ~(ClaimedColumns(args) \subseteq labels)) =>
        /\ outcome = "AssertionError"
        /\ index = before
        /\ stdout = <<>>
        /\ nexec = 0
        /\ results = <<>>

\* C6 witness: a per-user call on a file without uid, on an object whose
\* earlier call had already added the depth column
C6_Witness ==
    /\ pc = "done" /\ outcome = "AssertionError"
    /\ args.per_user /\ "uid" \notin labels
    /\ \A c \in ClaimedColumns(args) \ {"uid"} : c \in labels
    /\ \E i \in DOMAIN index : index[i].depth # None
    /\ index = before

\* C7: the string names num, also for fac^7 and above: the printed number
\* is num divided by fac^(index of the printed unit), to the one decimal
\* that is printed
C7_PrintedNumberTimesUnitIsNum ==
    pc = "done" =>
        LET k == IndexOf(Units(fsi), fout.unit) - 1
        IN  fout.number = FormatF1([digits |-> fnum, shift |-> k], Fac(fsi))

\* the last part of C7: below fac^7 the printed number is below fac
C7_PrintedNumberBelowFac ==
    (pc = "done" /\ Len(fnum) <= 7) => Len(fout.number.whole) <= 1

\* the usage lines of a report: what was printed after the two header
\* lines, without the rules
UsageLines == SelectSeq(SubSeq(stdout, 3, Len(stdout)),
                        LAMBDA l : l.cells # <<>>)

\* C8: in a per-user report every user line stands beneath the line of
\* its own directory: the nearest directory line above it is the line of
\* the directory the row belongs to
C8_UserLinesFollowTheirDirectory ==
    (Returned /\ args.per_user /\ ~args.suppress_output) =>
        /\ Len(UsageLines) = Len(results)
        /\ \A i \in DOMAIN results :
              UsageLines[i].prefix = 4 =>
                  \E j \in 1..(i - 1) :
                      /\ UsageLines[j].prefix = 0
                      /\ UsageLines[j].ident = results[i][1]
                      /\ \A k \in (j + 1)..(i - 1) :
                            UsageLines[k].prefix = 4

\* C9: a call with output enabled whose columns are there and whose sort
\* options pass returns, also when the filter leaves a size missing, and
\* a missing size is printed as "-"
C9_FilteredReportCompletes ==
    (/\ pc = "done" /\ ~args.suppress_output
     /\ ClaimedColumns(args) \subseteq labels
     /\ MetricsKnown(args)
     /\ ~RejectedSortOptions(args)) =>
        /\ outcome = "returned"
        /\ \A i \in DOMAIN results : \A m \in DOMAIN args.metrics :
              results[i][3 + m] = None => UsageLines[i].cells[m].text = "-"

\* the table without its depth column
WithoutDepth(idx) ==
    [i \in DOMAIN idx |->
        [path |-> idx[i].path, is_dir |-> idx[i].is_dir,
         size |-> idx[i].size, uid |-> idx[i].uid, atime |-> idx[i].atime]]

\* C10: whatever calls came before, a call leaves the entries of the
\* table as they are in the file, ends as it ends on a fresh object, and
\* leaves the depth column a fresh object would have
C10_CallsAreIndependent ==
    /\ WithoutDepth(index) = file
    /\ pc = "done" =>
          LET fresh == report_du(read_db(file), labels, args)
          IN  /\ outcome = fresh.outcome
              /\ results = fresh.results
              /\ stdout = fresh.stdout
              /\ outcome = "returned" => index = fresh.index

\* C10 witness: a call that returned rows on an object whose depth
\* column held the values of an earlier call with another top directory
C10_Witness ==
    /\ Returned /\ results # <<>>
    /\ \A i \in DOMAIN before : before[i].depth # None
    /\ \E i \in DOMAIN before : before[i].depth # index[i].depth
    /\ args.top_directory = <<>>

=============================================================================
